---------------------------- MODULE Spec2Model ----------------------------
(***************************************************************************)
(* Model of src/include/autoencoder_lr_interpolation.py: a sequential      *)
(* script that checks the network directory, loads and resamples the       *)
(* selected point clouds, opens a model session, encodes the batch, and    *)
(* walks the nested interpolate-and-plot loop.                             *)
(*                                                                         *)
(* Arrays are 0-based functions, as in the source.  Python floats are      *)
(* modelled bit-exactly as IEEE-754 doubles (see "float arithmetic").      *)
(* The generator is seeded at line 119, so the two shape selections are    *)
(* the seeded draws for the lengths of the two geometry lists; the later   *)
(* sampling calls start from a generator state that depends on the size    *)
(* of every file read before, and every outcome of each call is explored.  *)
(* The trained network (sess.run) is an external collaborator and is       *)
(* represented by a stand-in function of its input with small integer      *)
(* outputs.                                                                *)
(*                                                                         *)
(* Spec is the script.  SpecFn applies the three frame-parameter           *)
(* expressions of the loop body (shp_interp, col_interp, az) to inputs     *)
(* drawn from bounded sets.                                                *)
(***************************************************************************)
EXTENDS Integers, Sequences, FiniteSets, TLC

\* ------------------------------------------------------------------ bounds
\* pc_size is read from log_dictionary["pc_size"] (an input of the script).
pc_size == 3
\* Latent size (args.LR) and the range of the stand-in network's outputs.
LatentSize == 2
LatentMod == 5
\* Number of stand-in checkpoints (trained parameter sets) explored.
MaxNet == 2
\* Latent values handed to the frame-parameter expressions in SpecFn:
\* the integers -MaxLat .. MaxLat.
MaxLat == 1

\* --------------------------------------------------------- program constants
n_shapes_trainingset == 5
n_shapes_testset == 5
n_steps_interp == 5
ar_range == 180

\* ------------------------------------------------------- float arithmetic
\* A double is [s, m, e] with value s * m * 2^e: s is 1 or -1 and m is an
\* odd natural of at most MantBits bits, written as a little-endian
\* sequence of limbs in base LimbBase (zero is m = <<>>, s = 1, e = 0).
\* Every operation computes the exact result and rounds it to nearest, ties
\* to even, as the hardware does.  Exponent overflow and subnormals are out
\* of the range of the values the script computes.
MantBits == 53
LimbBits == 15
LimbBase == 2 ^ LimbBits

Abs(x) == IF x < 0 THEN -x ELSE x
Min(a, b) == IF a <= b THEN a ELSE b

RECURSIVE BStrip(_)
BStrip(a) ==
    IF a = <<>> THEN <<>>
    ELSE IF a[Len(a)] = 0 THEN BStrip(SubSeq(a, 1, Len(a) - 1))
    ELSE a

RECURSIVE BFromInt(_)
BFromInt(n) ==
    IF n = 0 THEN <<>> ELSE <<n % LimbBase>> \o BFromInt(n \div LimbBase)

BLimb(a, k) == IF k >= 1 /\ k <= Len(a) THEN a[k] ELSE 0

RECURSIVE BAddFrom(_, _, _, _)
BAddFrom(a, b, k, c) ==
    IF k > Len(a) /\ k > Len(b)
    THEN (IF c = 0 THEN <<>> ELSE <<c>>)
    ELSE LET t == BLimb(a, k) + BLimb(b, k) + c
         IN  <<t % LimbBase>> \o BAddFrom(a, b, k + 1, t \div LimbBase)

BAdd(a, b) == BAddFrom(a, b, 1, 0)

\* a - b for a >= b.
RECURSIVE BSubFrom(_, _, _, _)
BSubFrom(a, b, k, c) ==
    IF k > Len(a) THEN <<>>
    ELSE LET t == BLimb(a, k) - BLimb(b, k) - c
         IN  IF t < 0
             THEN <<t + LimbBase>> \o BSubFrom(a, b, k + 1, 1)
             ELSE <<t>> \o BSubFrom(a, b, k + 1, 0)

BSub(a, b) == BStrip(BSubFrom(a, b, 1, 0))

\* a * n for 0 <= n < LimbBase.
RECURSIVE BMulSmallFrom(_, _, _, _)
BMulSmallFrom(a, n, k, c) ==
    IF k > Len(a)
    THEN (IF c = 0 THEN <<>> ELSE <<c>>)
    ELSE LET t == a[k] * n + c
         IN  <<t % LimbBase>> \o BMulSmallFrom(a, n, k + 1, t \div LimbBase)

BMulSmall(a, n) == BStrip(BMulSmallFrom(a, n, 1, 0))

BShlLimbs(a, n) == IF a = <<>> THEN <<>> ELSE [k \in 1..n |-> 0] \o a

RECURSIVE BMulFrom(_, _, _)
BMulFrom(a, b, k) ==
    IF k > Len(b) THEN <<>>
    ELSE BAdd(BMulSmall(a, b[k]), BShlLimbs(BMulFrom(a, b, k + 1), 1))

BMul(a, b) == BStrip(BMulFrom(a, b, 1))

\* -1, 0, 1 as a < b, a = b, a > b.
RECURSIVE BCmpFrom(_, _, _)
BCmpFrom(a, b, k) ==
    IF k = 0 THEN 0
    ELSE IF a[k] < b[k] THEN -1
    ELSE IF a[k] > b[k] THEN 1
    ELSE BCmpFrom(a, b, k - 1)

BCmp(a, b) ==
    IF Len(a) < Len(b) THEN -1
    ELSE IF Len(a) > Len(b) THEN 1
    ELSE BCmpFrom(a, b, Len(a))

RECURSIVE BitLenSmall(_)
BitLenSmall(n) == IF n = 0 THEN 0 ELSE 1 + BitLenSmall(n \div 2)

BBitLen(a) ==
    IF a = <<>> THEN 0
    ELSE LimbBits * (Len(a) - 1) + BitLenSmall(a[Len(a)])

BBit(a, pos) ==
    (BLimb(a, (pos \div LimbBits) + 1) \div (2 ^ (pos % LimbBits))) % 2

BShl(a, bits) ==
    BShlLimbs(BMulSmall(a, 2 ^ (bits % LimbBits)), bits \div LimbBits)

\* floor(a / 2^bits)
BShr(a, bits) ==
    LET drop == bits \div LimbBits
        r == bits % LimbBits
        x == IF drop >= Len(a) THEN <<>> ELSE SubSeq(a, drop + 1, Len(a))
    IN  BStrip([k \in 1..Len(x) |->
                  (x[k] \div (2 ^ r))
                    + (BLimb(x, k + 1) % (2 ^ r)) * (2 ^ (LimbBits - r))])

\* The low `bits` bits of a are all zero.
BLowZero(a, bits) ==
    /\ \A k \in 1..(bits \div LimbBits) : BLimb(a, k) = 0
    /\ BLimb(a, (bits \div LimbBits) + 1) % (2 ^ (bits % LimbBits)) = 0

\* The number of trailing zero bits of a # 0, counted from limb k on.
RECURSIVE TrailingZerosSmall(_)
TrailingZerosSmall(n) ==
    IF n % 2 = 1 THEN 0 ELSE 1 + TrailingZerosSmall(n \div 2)

RECURSIVE BTrailingZeros(_, _)
BTrailingZeros(a, k) ==
    IF a[k] = 0 THEN LimbBits + BTrailingZeros(a, k + 1)
    ELSE TrailingZerosSmall(a[k])

FZero == [s |-> 1, m |-> <<>>, e |-> 0]

\* s * m * 2^e with the trailing zero bits of m moved into the exponent.
FCanon(s, m, e) ==
    IF m = <<>> THEN FZero
    ELSE LET tz == BTrailingZeros(m, 1)
         IN  [s |-> s, m |-> BShr(m, tz), e |-> e + tz]

\* The double nearest to s * (m + f) * 2^e, ties to even, where 0 < f < 1
\* if sticky and f = 0 otherwise (sticky requires m of more than MantBits
\* bits).
FRound(s, m, e, sticky) ==
    LET len == BBitLen(m)
    IN  IF len <= MantBits THEN FCanon(s, m, e)
        ELSE LET sh == len - MantBits
                 q == BShr(m, sh)
                 half == BBit(m, sh - 1) = 1
                 rest == sticky \/ ~BLowZero(m, sh - 1)
                 up == half /\ (rest \/ BBit(q, 0) = 1)
             IN  FCanon(s, IF up THEN BAdd(q, <<1>>) ELSE q, e + sh)

\* float(n) for an integer n.
FInt(n) == FCanon(IF n < 0 THEN -1 ELSE 1, BFromInt(Abs(n)), 0)

FNeg(x) == IF x.m = <<>> THEN x ELSE [x EXCEPT !.s = -x.s]

FMul(x, y) ==
    IF x.m = <<>> \/ y.m = <<>> THEN FZero
    ELSE FRound(x.s * y.s, BMul(x.m, y.m), x.e + y.e, FALSE)

FAdd(x, y) ==
    IF x.m = <<>> THEN y
    ELSE IF y.m = <<>> THEN x
    ELSE LET e == Min(x.e, y.e)
             mx == BShl(x.m, x.e - e)
             my == BShl(y.m, y.e - e)
             c == BCmp(mx, my)
         IN  IF x.s = y.s THEN FRound(x.s, BAdd(mx, my), e, FALSE)
             ELSE IF c = 0 THEN FZero
             ELSE IF c > 0 THEN FRound(x.s, BSub(mx, my), e, FALSE)
             ELSE FRound(y.s, BSub(my, mx), e, FALSE)

FSub(x, y) == FAdd(x, FNeg(y))

\* The limbs, most significant first, of floor(r * LimbBase^k / b), r < b.
RECURSIVE FracLimbs(_, _, _)
FracLimbs(r, b, k) ==
    IF k = 0 THEN <<>>
    ELSE <<(r * LimbBase) \div b>> \o FracLimbs((r * LimbBase) % b, b, k - 1)

\* The remainder left after FracLimbs(r, b, k).
RECURSIVE FracRem(_, _, _)
FracRem(r, b, k) ==
    IF k = 0 THEN r ELSE FracRem((r * LimbBase) % b, b, k - 1)

Reverse(q) == [k \in 1..Len(q) |-> q[Len(q) + 1 - k]]

\* a / b for integers a and b, 0 < |b| <= LimbBase: Python's true division,
\* the double nearest to the exact quotient (five limbs of fraction leave
\* more than MantBits + 2 significant bits before rounding).
FDivInt(a, b) ==
    LET s == IF (a < 0) # (b < 0) THEN -1 ELSE 1
        n == Abs(a)
        d == Abs(b)
        k == 5
        m == BStrip(Reverse(FracLimbs(n % d, d, k)) \o BFromInt(n \div d))
    IN  FRound(s, m, -(LimbBits * k), FracRem(n % d, d, k) # 0)

FLess(x, y) == LET d == FSub(x, y) IN d.m # <<>> /\ d.s = -1
FLeq(x, y) == ~FLess(y, x)
\* Marks a float variable that has not been assigned yet.
NoFloat == [s |-> 0, m |-> <<>>, e |-> 0]

EmptyFn == [p \in {} |-> 0]
Rows(arr) == Cardinality(DOMAIN arr)
\* numpy index normalisation: a negative index counts from the end.
NegIndex(len, k) == IF k < 0 THEN len + k ELSE k

\* ------------------------------------------------------- frame parameters
\* Interpolation weight of step j: np.float(j)/(n_steps_interp-1).
StepWeight(j) == FDivInt(j, n_steps_interp - 1)

\* a*u + b*w for integer-valued a and b (an element of the array
\* expression row_i*(1 - w) + row_i1*w, u being the scalar 1 - w).
Blend(a, b, u, w) == FAdd(FMul(FInt(a), u), FMul(FInt(b), w))

\* Variant of ShpInterp whose weights are j/n_steps_interp.
ShpInterpStepS(lat, i, j) ==
    LET w == FDivInt(j, n_steps_interp)
        u == FSub(FInt(1), w)
    IN  [d \in DOMAIN lat[i] |-> Blend(lat[i][d], lat[i + 1][d], u, w)]

\* shp_interp: the latent code of step j between rows i and i+1.
ShpInterp(lat, i, j) ==
    LET w == StepWeight(j)
        u == FSub(FInt(1), StepWeight(j))
    IN  [d \in DOMAIN lat[i] |-> Blend(lat[i][d], lat[i + 1][d], u, w)]

\* Variant of ColInterp without the 0.5 factor.
ColInterpNoHalf(col, i, j) ==
    LET w == StepWeight(j)
        u == FSub(FInt(1), StepWeight(j))
    IN  [c \in DOMAIN col[i] |-> Blend(col[i][c], col[i + 1][c], u, w)]

\* col_interp: the colour of step j between rows i and i+1, dimmed by 0.5.
ColInterp(col, i, j) ==
    LET w == StepWeight(j)
        u == FSub(FInt(1), StepWeight(j))
        half == FDivInt(1, 2)
    IN  [c \in DOMAIN col[i] |->
            FMul(half, Blend(col[i][c], col[i + 1][c], u, w))]

\* Variant of Az that restarts the ramp at every shape.
AzPerShape(c, n_shapes) ==
    FAdd(FSub(FInt(90), FDivInt(ar_range, 2)),
         FMul(FDivInt(c % n_steps_interp, n_steps_interp), FInt(ar_range)))

\* az for the global frame counter c:
\* (90-ar_range/2) + (cntr/(n_shapes*n_steps_interp))*ar_range.
Az(c, n_shapes) ==
    FAdd(FSub(FInt(90), FDivInt(ar_range, 2)),
         FMul(FDivInt(c, n_shapes * n_steps_interp), FInt(ar_range)))

\* The (i, j) of the iteration after (i, j) in
\* "for i in range(n_shapes): for j in range(n_steps_interp)";
\* (-1, -1) stands for "no iteration yet".
NextIJ(i, j) ==
    IF i < 0 THEN <<0, 0>>
    ELSE IF j < n_steps_interp - 1 THEN <<i, j + 1>>
    ELSE <<i + 1, 0>>

LoopDone(i, j, n_shapes) == i = n_shapes - 1 /\ j = n_steps_interp - 1

\* ------------------------------------------------------------- plot3 call
\* Parameters of "def plot3(PC, Filename, colorname='tan')".
plot3_params == {"PC", "Filename", "colorname"}
\* Keywords of the call "plot3(pc_interpolated, pc_name, az=az, col=col_interp)".
plot3_call_keywords == {"az", "col"}
\* A Python call raises TypeError on a keyword the function does not declare.
CallAccepted(params, keywords) == keywords \subseteq params

\* ------------------------------------------------------------ the session
\* Variant: the session is released on normal exit of the block only.
ReleasedOnNormalExitOnly(raised) == ~raised

\* "with tf.Session() as sess": the context manager closes the session when
\* the block is left, by falling off its end or by an exception.
WithBlockReleases(raised) == TRUE

\* --------------------------------------------------------- directory check
\* Variant of TopDirMissing that never reports the directory as missing.
TopDirNeverMissing(exists) == FALSE

\* "if not osp.exists(top_dir)".
TopDirMissing(exists) == ~exists

\* ---------------------------------------------------------------- loading
Zeros3 == [c \in 0..2 |-> 0]
ZeroPoint == [geom |-> -1, row |-> -1]

\* Numbers of rows of geometries_training.csv and geometries_testing.csv
\* explored (inputs of the script), as pairs <<training, testing>>.
GeomRows == {<<5, 5>>, <<6, 6>>}

\* Stand-ins for the path names listed in the two geometry files.
GeomTraining(k) == 2 * k
GeomTesting(k) == 2 * k + 1

\* pc_load.shape[0] of the file of geometry g (an input of the script):
\* a training file larger than pc_size, a training file of two points, a
\* test file of exactly pc_size points, the others (training and test) of
\* one point.  Both loops meet files below pc_size and files not below it.
PcLoadRows(g) ==
    IF g = GeomTraining(5) THEN pc_size + 1
    ELSE IF g = GeomTraining(4) THEN 2
    ELSE IF g = GeomTesting(0) THEN pc_size
    ELSE 1

\* A Python list as a 0-based function.
List(q) == [t \in 0..(Len(q) - 1) |-> q[t + 1]]

\* np.random.choice(range(ntr), 5, replace=False) followed by
\* np.random.choice(range(nte), 5, replace=False), as the first two draws
\* of the generator seeded with np.random.seed(seed=0).
SeededChoice(ntr, nte) ==
    CASE ntr = 5 /\ nte = 5 ->
             <<List(<<2, 0, 1, 3, 4>>), List(<<0, 2, 1, 4, 3>>)>>
      [] ntr = 6 /\ nte = 6 ->
             <<List(<<5, 2, 1, 3, 0>>), List(<<1, 3, 4, 0, 2>>)>>

\* Variant of WithReplacement that also resamples a cloud of exactly size points.
WithReplacementLeq(m, size) == m <= size

\* "if pc_load.shape[0] < pc_size": sample with replacement.
WithReplacement(m, size) == m < size

Injective(f) == \A a, b \in DOMAIN f : f[a] = f[b] => a = b

\* Outcomes of np.random.choice(range(m), size[, replace=False]).
SampleSet(m, size, replace) ==
    IF replace THEN [0..(size - 1) -> 0..(m - 1)]
    ELSE {f \in [0..(size - 1) -> 0..(m - 1)] : Injective(f)}

\* pc_load[pc_sample, :] : the sampled rows of the loaded file.
TakeRows(load, sample) ==
    [p \in DOMAIN sample |-> [geom |-> load.geom, row |-> sample[p]]]

\* [arr EXCEPT ![row][comp] = 1] : "color_shape[row, comp] = 1".
SetComp(arr, row, comp) == [arr EXCEPT ![row][comp] = 1]

\* Variant of color_shape_alloc with one row per shape and no extra row.
color_shape_alloc_short ==
    [k \in 0..(n_shapes_trainingset + n_shapes_testset - 1) |-> Zeros3]

\* np.zeros((n_shapes_trainingset+n_shapes_testset+1, 3))
color_shape_alloc ==
    [k \in 0..(n_shapes_trainingset + n_shapes_testset) |-> Zeros3]

\* np.zeros((n_shapes_trainingset+n_shapes_testset, pc_size, 3))
vis_set_alloc ==
    [k \in 0..(n_shapes_trainingset + n_shapes_testset - 1) |->
        [p \in 0..(pc_size - 1) |-> ZeroPoint]]

\* ------------------------------------------------------------ the network
RECURSIVE RowSum(_, _)
RowSum(row, k) == IF k < 0 THEN 0 ELSE row[k].row + RowSum(row, k - 1)

\* Stand-in for sess.run(latent_rep, feed_dict={x: vis_set}) with the
\* restored parameters w: one code of LatentSize numbers per row.
Encode(w, batch) ==
    [k \in DOMAIN batch |->
        [d \in 0..(LatentSize - 1) |->
            (w * (RowSum(batch[k], Rows(batch[k]) - 1) + d + 1)
               + batch[k][0].geom) % LatentMod]]

\* Variant of ConcatFirst that appends the last row.
ConcatLast(lat) ==
    [k \in 0..Rows(lat) |-> IF k < Rows(lat) THEN lat[k] ELSE lat[Rows(lat) - 1]]

\* np.concatenate((latent_rep_total, latent_rep_total[0] reshaped), axis=0)
ConcatFirst(lat) ==
    [k \in 0..Rows(lat) |-> IF k < Rows(lat) THEN lat[k] ELSE lat[0]]

\* ------------------------------------------------------------------ state
VARIABLES
    dirExists,          \* osp.exists(top_dir): an input of the run
    geom_training_rows, \* geom_training.shape[0]: an input of the run
    geom_testing_rows,  \* geom_testing.shape[0]: an input of the run
    pc,                 \* position of the script
    stdout,             \* messages printed
    error,              \* the uncaught exception that ended the run, or ""
    geomRead,           \* the geometry lists have been read
    outputs,            \* names of the files and directories written
    i_sel_training, i_sel_testing,
    it,                 \* position of the running "for i in i_sel_..." loop
    vis_set, color_shape, log_reconst, cntr, pc_load, pc_sample,
    normalized,         \* data_set_norm has been applied to vis_set
    net,                \* the restored network parameters (0: none)
    sessOpen, acquired, released,
    encodeCalls, decodeCalls,
    latent_rep_total, i, j, shp_interp, col_interp, az,
    htmlFiles,          \* the i of every PC_<i>_reconstruction.html written
    pngFiles,           \* the <<i, j>> of every PC_<i>_<j>.png rendered
    fn, arg, res        \* SpecFn: the expression applied, its input, its value

envVars == <<dirExists, geom_training_rows, geom_testing_rows>>
ioVars == <<stdout, error, geomRead, outputs>>
selVars == <<i_sel_training, i_sel_testing>>
loadVars == <<vis_set, color_shape, log_reconst, pc_load, pc_sample>>
sessVars == <<net, sessOpen, acquired, released, encodeCalls, decodeCalls>>
frameVars == <<latent_rep_total, i, j, shp_interp, col_interp, az,
               htmlFiles, pngFiles>>
fnVars == <<fn, arg, res>>
scriptVars == <<envVars, pc, ioVars, selVars, it, loadVars, cntr, normalized,
                sessVars, frameVars>>
vars == <<scriptVars, fnVars>>

NoLoad == [geom |-> -1, rows |-> 0]
NoRes == [done |-> FALSE, val |-> <<>>]

\* The script before its first statement, with the given inputs.
Start(exists, ntr, nte) ==
    /\ dirExists = exists
    /\ geom_training_rows = ntr
    /\ geom_testing_rows = nte
    /\ pc = "check_dir"
    /\ stdout = <<>>
    /\ error = ""
    /\ geomRead = FALSE
    /\ outputs = {}
    /\ i_sel_training = EmptyFn
    /\ i_sel_testing = EmptyFn
    /\ it = 0
    /\ vis_set = EmptyFn
    /\ color_shape = EmptyFn
    /\ log_reconst = <<>>
    /\ cntr = 0
    /\ pc_load = NoLoad
    /\ pc_sample = EmptyFn
    /\ normalized = FALSE
    /\ net = 0
    /\ sessOpen = FALSE
    /\ acquired = 0
    /\ released = 0
    /\ encodeCalls = 0
    /\ decodeCalls = 0
    /\ latent_rep_total = EmptyFn
    /\ i = -1
    /\ j = -1
    /\ shp_interp = EmptyFn
    /\ col_interp = EmptyFn
    /\ az = NoFloat
    /\ htmlFiles = {}
    /\ pngFiles = {}

Init ==
    /\ \E exists \in BOOLEAN, n \in GeomRows : Start(exists, n[1], n[2])
    /\ fn = "none"
    /\ arg = <<>>
    /\ res = NoRes

\* ---------------------------------------------------------------- actions
\* Lines 225-228: the network directory check.
CheckTopDir ==
    /\ pc = "check_dir"
    /\ IF TopDirMissing(dirExists)
       THEN /\ stdout' = Append(stdout, "Directory does not exist!")
            /\ pc' = "exited"
       ELSE /\ stdout' = stdout
            /\ pc' = "config"
    /\ UNCHANGED <<envVars, error, geomRead, outputs, selVars, it, loadVars,
                   cntr, normalized, sessVars, frameVars, fnVars>>

\* Lines 231-254: the log dictionary, the geometry lists, the graph paths.
LoadConfig ==
    /\ pc = "config"
    /\ geomRead' = TRUE
    /\ pc' = "select"
    /\ UNCHANGED <<envVars, stdout, error, outputs, selVars, it, loadVars,
                   cntr, normalized, sessVars, frameVars, fnVars>>

\* Lines 258-274: the shape selection and the allocation of the batch.
SelectShapes ==
    /\ pc = "select"
    /\ i_sel_training' = SeededChoice(geom_training_rows, geom_testing_rows)[1]
    /\ i_sel_testing' = SeededChoice(geom_training_rows, geom_testing_rows)[2]
    /\ vis_set' = vis_set_alloc
    /\ color_shape' = color_shape_alloc
    /\ log_reconst' = <<>>
    /\ cntr' = 0
    /\ it' = 0
    /\ pc' = "load_training"
    /\ UNCHANGED <<envVars, ioVars, pc_load, pc_sample, normalized, sessVars,
                   frameVars, fnVars>>

\* Lines 276-288: one iteration of the training-set loop.
LoadTraining ==
    /\ pc = "load_training"
    /\ LET g == GeomTraining(i_sel_training[it])
           load == [geom |-> g, rows |-> PcLoadRows(g)]
       IN  \E s \in SampleSet(load.rows, pc_size,
                              WithReplacement(load.rows, pc_size)) :
               /\ pc_load' = load
               /\ log_reconst' = Append(log_reconst, g)
               /\ pc_sample' = s
               /\ color_shape' = SetComp(color_shape, cntr, 2)
               /\ vis_set' = [vis_set EXCEPT ![cntr] = TakeRows(load, s)]
    /\ cntr' = cntr + 1
    /\ IF it + 1 < n_shapes_trainingset
       THEN it' = it + 1 /\ pc' = pc
       ELSE it' = 0 /\ pc' = "load_testing"
    /\ UNCHANGED <<envVars, ioVars, selVars, normalized, sessVars, frameVars,
                   fnVars>>

\* Lines 290-302: one iteration of the test-set loop.
LoadTesting ==
    /\ pc = "load_testing"
    /\ LET g == GeomTesting(i_sel_testing[it])
           load == [geom |-> g, rows |-> PcLoadRows(g)]
       IN  \E s \in SampleSet(load.rows, pc_size,
                              WithReplacement(load.rows, pc_size)) :
               /\ log_reconst' = Append(log_reconst, g)
               /\ pc_load' = load
               /\ pc_sample' = s
               /\ color_shape' = SetComp(color_shape, cntr, 0)
               /\ vis_set' = [vis_set EXCEPT ![cntr] = TakeRows(load, s)]
    /\ cntr' = cntr + 1
    /\ IF it + 1 < n_shapes_testset
       THEN it' = it + 1 /\ pc' = pc
       ELSE it' = 0 /\ pc' = "final_slot"
    /\ UNCHANGED <<envVars, ioVars, selVars, normalized, sessVars, frameVars,
                   fnVars>>

\* Lines 303-304: vis_set[-1] and color_shape[-1, 2].
FinalSlot ==
    /\ pc = "final_slot"
    /\ vis_set' = [vis_set EXCEPT ![NegIndex(Rows(vis_set), -1)] =
                       TakeRows(pc_load, pc_sample)]
    /\ color_shape' = SetComp(color_shape, NegIndex(Rows(color_shape), -1), 2)
    /\ pc' = "normalize"
    /\ UNCHANGED <<envVars, ioVars, selVars, it, log_reconst, cntr, pc_load,
                   pc_sample, normalized, sessVars, frameVars, fnVars>>

\* Lines 306-325: normalisation, the reconstruction log, the plot directory.
NormalizeAndLog ==
    /\ pc = "normalize"
    /\ normalized' = TRUE
    /\ outputs' = outputs \cup {"geometries_reconstruction.csv",
                                "point_cloud_interpolation"}
    /\ pc' = "session"
    /\ UNCHANGED <<envVars, stdout, error, geomRead, selVars, it, loadVars,
                   cntr, sessVars, frameVars, fnVars>>

\* Lines 328-342: the session is opened and the graph restored.
OpenSession ==
    /\ pc = "session"
    /\ net' \in 1..MaxNet
    /\ sessOpen' = TRUE
    /\ acquired' = acquired + 1
    /\ pc' = "encode"
    /\ UNCHANGED <<envVars, ioVars, selVars, it, loadVars, cntr, normalized,
                   released, encodeCalls, decodeCalls, frameVars, fnVars>>

\* Lines 345-359: the batch encode, the wrap-around row, the loop set-up.
EncodeBatch ==
    /\ pc = "encode"
    /\ latent_rep_total' = ConcatFirst(Encode(net, vis_set))
    /\ encodeCalls' = encodeCalls + 1
    /\ cntr' = 0
    /\ pc' = "frames"
    /\ UNCHANGED <<envVars, ioVars, selVars, it, loadVars, normalized, net,
                   sessOpen, acquired, released, decodeCalls, i, j,
                   shp_interp, col_interp, az, htmlFiles, pngFiles, fnVars>>

\* Lines 362-372 and 396-397: the parameters of the next frame.
FrameParams ==
    LET ij == NextIJ(i, j)
    IN  /\ i' = ij[1]
        /\ j' = ij[2]
        /\ shp_interp' = ShpInterp(latent_rep_total, ij[1], ij[2])
        /\ col_interp' = ColInterp(color_shape, ij[1], ij[2])
        /\ az' = Az(cntr, Rows(vis_set))
        /\ cntr' = cntr + 1

\* Lines 360-405: one iteration of the interpolate-and-plot loop: the frame
\* parameters, the decode call, the HTML scene of step 0, the plot3 call;
\* after the last iteration the GIF, the end of the with block and exit().
\* An exception leaves the with block and ends the run.
InterpolateAndPlot ==
    /\ pc = "frames"
    /\ FrameParams
    /\ decodeCalls' = decodeCalls + 1
    /\ htmlFiles' = IF j' = 0 THEN htmlFiles \cup {i'} ELSE htmlFiles
    /\ IF CallAccepted(plot3_params, plot3_call_keywords)
       THEN /\ pngFiles' = pngFiles \cup {<<i', j'>>}
            /\ error' = error
            /\ IF LoopDone(i', j', Rows(vis_set))
               THEN /\ outputs' = outputs \cup {"interpolation.gif"}
                    /\ sessOpen' = ~WithBlockReleases(FALSE)
                    /\ released' = released
                                     + (IF WithBlockReleases(FALSE) THEN 1 ELSE 0)
                    /\ pc' = "exited"
               ELSE /\ UNCHANGED <<outputs, sessOpen, released>>
                    /\ pc' = pc
       ELSE /\ error' = "TypeError"
            /\ sessOpen' = ~WithBlockReleases(TRUE)
            /\ released' = released
                             + (IF WithBlockReleases(TRUE) THEN 1 ELSE 0)
            /\ pc' = "crashed"
            /\ UNCHANGED <<pngFiles, outputs>>
    /\ UNCHANGED <<envVars, stdout, geomRead, selVars, it, loadVars,
                   normalized, net, acquired, encodeCalls, latent_rep_total,
                   fnVars>>

Next ==
    \/ CheckTopDir
    \/ LoadConfig
    \/ SelectShapes
    \/ LoadTraining
    \/ LoadTesting
    \/ FinalSlot
    \/ NormalizeAndLog
    \/ OpenSession
    \/ EncodeBatch
    \/ InterpolateAndPlot

Spec == Init /\ [][Next]_vars

\* ------------------------------------- the frame-parameter expressions
NShapes == n_shapes_trainingset + n_shapes_testset
NFrames == NShapes * n_steps_interp
\* The colour labels written by lines 286 and 300.
Blue == SetComp([k \in {0} |-> Zeros3], 0, 2)[0]
Red == SetComp([k \in {0} |-> Zeros3], 0, 0)[0]

\* Inputs of line 364: two consecutive rows of latent_rep_total and a step.
LatRows == [0..(LatentSize - 1) -> (-MaxLat)..MaxLat]
ShpArgs ==
    {[lat |-> List(<<a, b>>), i |-> 0, j |-> s] :
        a \in LatRows, b \in LatRows, s \in 0..(n_steps_interp - 1)}

\* Inputs of line 369: two consecutive rows of color_shape and a step.
ColArgs ==
    {[col |-> List(<<a, b>>), i |-> 0, j |-> s] :
        a \in {Zeros3, Blue, Red}, b \in {Zeros3, Blue, Red},
        s \in 0..(n_steps_interp - 1)}

\* Inputs of line 396: every value of the frame counter, for the n_shapes
\* of line 359.
AzArgs == {[c |-> k, n_shapes |-> NShapes] : k \in 0..(NFrames - 1)}

InitFn ==
    /\ Start(TRUE, 5, 5)
    /\ \/ fn = "ShpInterp" /\ arg \in ShpArgs
       \/ fn = "ColInterp" /\ arg \in ColArgs
       \/ fn = "Az" /\ arg \in AzArgs
    /\ res = NoRes

\* Lines 364-366.
EvalShpInterp ==
    /\ fn = "ShpInterp"
    /\ ~res.done
    /\ res' = [done |-> TRUE, val |-> ShpInterp(arg.lat, arg.i, arg.j)]
    /\ UNCHANGED <<scriptVars, fn, arg>>

\* Lines 369-372.
EvalColInterp ==
    /\ fn = "ColInterp"
    /\ ~res.done
    /\ res' = [done |-> TRUE, val |-> ColInterp(arg.col, arg.i, arg.j)]
    /\ UNCHANGED <<scriptVars, fn, arg>>

\* Line 396.
EvalAz ==
    /\ fn = "Az"
    /\ ~res.done
    /\ res' = [done |-> TRUE, val |-> Az(arg.c, arg.n_shapes)]
    /\ UNCHANGED <<scriptVars, fn, arg>>

NextFn ==
    \/ EvalShpInterp
    \/ EvalColInterp
    \/ EvalAz

SpecFn == InitFn /\ [][NextFn]_vars

\* ----------------------------------------------------------------- claims
AzFirst == FInt(90 - ar_range \div 2)
AzUpper == FInt(90 + ar_range \div 2)
Terminated == pc \in {"exited", "crashed"}
LoadingDone ==
    \/ pc \in {"normalize", "session", "encode", "frames", "crashed"}
    \/ pc = "exited" /\ dirExists
Evaluated(f) == fn = f /\ res.done

\* C1: the latent code of step j between rows i and i+1 is
\* A*(1 - j/(S-1)) + B*(j/(S-1)); at j = 0 it is A and at j = S-1 it is B.
C1_LatentEndpoints ==
    Evaluated("ShpInterp") =>
        /\ DOMAIN res.val = DOMAIN arg.lat[arg.i]
        /\ \A d \in DOMAIN res.val :
            LET a == arg.lat[arg.i][d]
                b == arg.lat[arg.i + 1][d]
            IN  /\ FMul(res.val[d], FInt(n_steps_interp - 1))
                     = FInt(a * (n_steps_interp - 1 - arg.j) + b * arg.j)
                /\ arg.j = 0 => res.val[d] = FInt(a)
                /\ arg.j = n_steps_interp - 1 => res.val[d] = FInt(b)

\* C1 witness: the last step between two codes that differ in every
\* component has been computed and equals the second code.
C1_Witness ==
    /\ Evaluated("ShpInterp")
    /\ arg.j = n_steps_interp - 1
    /\ \A d \in DOMAIN res.val :
        /\ arg.lat[arg.i][d] # arg.lat[arg.i + 1][d]
        /\ res.val[d] = FInt(arg.lat[arg.i + 1][d])

\* C2: the frame colour is half the blend of the colours of rows i and i+1;
\* at step 0 half the first colour, at step S-1 half the second colour.
C2_ColourHalfBlend ==
    Evaluated("ColInterp") =>
        /\ DOMAIN res.val = 0..2
        /\ \A c \in DOMAIN res.val :
            LET a == arg.col[arg.i][c]
                b == arg.col[arg.i + 1][c]
            IN  /\ FMul(res.val[c], FInt(2 * (n_steps_interp - 1)))
                     = FInt(a * (n_steps_interp - 1 - arg.j) + b * arg.j)
                /\ arg.j = 0 => res.val[c] = FDivInt(a, 2)
                /\ arg.j = n_steps_interp - 1 => res.val[c] = FDivInt(b, 2)

\* C2 witness: the last step of a segment from a training shape to a test
\* shape has colour (1/2, 0, 0).
C2_Witness ==
    /\ Evaluated("ColInterp")
    /\ arg.j = n_steps_interp - 1
    /\ arg.col[arg.i] = Blue
    /\ arg.col[arg.i + 1] = Red
    /\ res.val = [c \in 0..2 |-> IF c = 0 THEN FDivInt(1, 2) ELSE FZero]

\* C3: the azimuth of the first frame is 90 - range/2, and the azimuth of
\* every later frame is at least the azimuth of the frame before it, also
\* from the last step of one shape to the first step of the next.
C3_AzimuthGlobalRamp ==
    Evaluated("Az") =>
        /\ arg.c = 0 => res.val = AzFirst
        /\ arg.c > 0 => FLeq(Az(arg.c - 1, arg.n_shapes), res.val)

\* C3 witness: the azimuth of the first frame of the second shape has been
\* computed and lies above the azimuth of the frame before it.
C3_Witness ==
    /\ Evaluated("Az")
    /\ arg.c = n_steps_interp
    /\ FLess(Az(arg.c - 1, arg.n_shapes), res.val)
    /\ FLess(AzFirst, res.val)

\* C4: a run whose prerequisites exist ends with the azimuth of its last
\* computed frame, the final frame of the sequence, equal to 90 + range/2.
C4_FinalAzimuthIsUpperEnd ==
    (Terminated /\ dirExists) =>
        /\ LoopDone(i, j, Rows(vis_set))
        /\ az = AzUpper

\* C5: a run whose prerequisites exist ends with one frame image per
\* (i, j) pair, the frame counter at n_shapes * n_steps_interp, and the
\* animated image assembled, which happens only after every frame.
C5_EveryFrameRendered ==
    /\ "interpolation.gif" \in outputs => Cardinality(pngFiles) = NFrames
    /\ (Terminated /\ dirExists) =>
           /\ pngFiles = (0..(NShapes - 1)) \X (0..(n_steps_interp - 1))
           /\ cntr = NFrames
           /\ "interpolation.gif" \in outputs

\* C6: every sampled index list has pc_size entries in [0, M), pairwise
\* distinct when M >= pc_size, and every loaded row of the batch holds
\* pc_size points of the file it was loaded from.
C6_SamplePointCount ==
    /\ pc_load # NoLoad =>
           /\ pc_load.rows >= 1
           /\ DOMAIN pc_sample = 0..(pc_size - 1)
           /\ \A p \in DOMAIN pc_sample : pc_sample[p] \in 0..(pc_load.rows - 1)
           /\ pc_load.rows >= pc_size => Injective(pc_sample)
    /\ \A k \in DOMAIN vis_set :
           /\ DOMAIN vis_set[k] = 0..(pc_size - 1)
           /\ \A p \in DOMAIN vis_set[k] :
                  vis_set[k][p] # ZeroPoint =>
                      vis_set[k][p].row \in 0..(PcLoadRows(vis_set[k][p].geom) - 1)
    /\ LoadingDone =>
           \A k \in DOMAIN vis_set :
               /\ \A p \in DOMAIN vis_set[k] : vis_set[k][p] # ZeroPoint
               /\ PcLoadRows(vis_set[k][0].geom) >= pc_size
                      => Injective(vis_set[k])

\* C6 witness: the loaded batch holds, from the training loop and from the
\* test loop alike, a row sampled with replacement from a smaller cloud (a
\* point repeated) and a row sampled without replacement from a cloud of
\* at least pc_size points (all points distinct).
C6_Witness ==
    /\ LoadingDone
    /\ \A first \in {0, n_shapes_trainingset} :
           /\ \E k \in first..(first + n_shapes_trainingset - 1) :
                  /\ PcLoadRows(vis_set[k][0].geom) < pc_size
                  /\ ~Injective(vis_set[k])
           /\ \E k \in first..(first + n_shapes_trainingset - 1) :
                  /\ PcLoadRows(vis_set[k][0].geom) >= pc_size
                  /\ Injective(vis_set[k])
    /\ \E k \in 0..(n_shapes_trainingset - 1) :
           PcLoadRows(vis_set[k][0].geom) > pc_size
    /\ \E k \in n_shapes_trainingset..(NShapes - 1) :
           PcLoadRows(vis_set[k][0].geom) = pc_size

\* C7: when the network directory is missing the script prints one message
\* and is over: no geometry list read, nothing written, no session, no frame.
C7_MissingDirectoryStops ==
    (~dirExists /\ pc # "check_dir") =>
        /\ pc = "exited"
        /\ stdout = <<"Directory does not exist!">>
        /\ error = ""
        /\ ~geomRead
        /\ outputs = {}
        /\ acquired = 0
        /\ encodeCalls = 0
        /\ decodeCalls = 0
        /\ htmlFiles = {}
        /\ pngFiles = {}

\* C7 witness: a run without the directory has ended with its message.
C7_Witness ==
    /\ ~dirExists
    /\ pc = "exited"
    /\ Len(stdout) = 1

\* C8: the session is acquired once and released once; inference calls
\* happen while it is open; one batch encode precedes every decode; at most
\* 1 + n_shapes * n_steps_interp calls; released however the loop ends.
C8_SessionState ==
    /\ acquired <= 1
    /\ released <= acquired
    /\ sessOpen <=> (acquired = 1 /\ released = 0)
    /\ encodeCalls <= 1
    /\ decodeCalls > 0 => encodeCalls = 1
    /\ encodeCalls + decodeCalls <= 1 + NFrames
    /\ (Terminated /\ acquired > 0) =>
           /\ acquired = 1
           /\ released = 1
           /\ ~sessOpen
           /\ encodeCalls = 1

C8_SessionLifecycle ==
    /\ []C8_SessionState
    /\ [][ (encodeCalls' # encodeCalls \/ decodeCalls' # decodeCalls)
              => sessOpen ]_vars

\* C8 witness: an error has aborted the frame loop after the encode and a
\* decode call, and the session has been released.
C8_Witness ==
    /\ pc = "crashed"
    /\ error # ""
    /\ acquired = 1
    /\ released = 1
    /\ ~sessOpen
    /\ encodeCalls = 1
    /\ decodeCalls = 1

\* C9 as stated: after loading, the final slot of the batch holds the
\* last-loaded test shape and the colour label of that slot is (0, 0, 1).
C9_FinalSlotHasTrainingColour ==
    LoadingDone =>
        LET last == NegIndex(Rows(vis_set), -1)
        IN  /\ vis_set[last] = TakeRows(pc_load, pc_sample)
            /\ pc_load.geom = GeomTesting(i_sel_testing[n_shapes_testset - 1])
            /\ color_shape[last] = Blue

\* C9 as amended: after loading, the final slot of the batch (index n-1)
\* holds the last-loaded test shape and its colour label is the test colour
\* (1, 0, 0); the colour hardcoded at the end of loading is that of row n of
\* color_shape, the extra row, which is (0, 0, 1).
C9_FinalSlotAndExtraColourRow ==
    LoadingDone =>
        /\ DOMAIN vis_set = 0..(NShapes - 1)
        /\ DOMAIN color_shape = 0..NShapes
        /\ vis_set[NShapes - 1] = TakeRows(pc_load, pc_sample)
        /\ pc_load.geom = GeomTesting(i_sel_testing[n_shapes_testset - 1])
        /\ color_shape[NShapes - 1] = Red
        /\ color_shape[NShapes] = Blue

\* C9 witness: loading is over, the last slot holds a test shape with the
\* test colour, and the extra colour row is blue.
C9_Witness ==
    /\ pc = "normalize"
    /\ vis_set[NShapes - 1][0].geom
         = GeomTesting(i_sel_testing[n_shapes_testset - 1])
    /\ color_shape[NShapes - 1] = Red
    /\ color_shape[NShapes] = Blue

\* C10: latent_rep_total and color_shape have n+1 rows, so row i+1 exists in
\* every iteration; the last step of a segment has the code and colour of
\* the first step of the next; row n repeats row 0, so the last frame has
\* the code and the (training-set) colour of the first frame, the frame the
\* script computes.
C10_ClosedChain ==
    pc \in {"frames", "crashed"} =>
        /\ DOMAIN latent_rep_total = 0..NShapes
        /\ DOMAIN color_shape = 0..NShapes
        /\ Rows(vis_set) = NShapes
        /\ latent_rep_total[NShapes] = latent_rep_total[0]
        /\ color_shape[NShapes] = color_shape[0]
        /\ color_shape[0] = Blue
        /\ pc = "frames" =>
               \A k \in 0..(NShapes - 2) :
                   /\ ShpInterp(latent_rep_total, k, n_steps_interp - 1)
                        = ShpInterp(latent_rep_total, k + 1, 0)
                   /\ ColInterp(color_shape, k, n_steps_interp - 1)
                        = ColInterp(color_shape, k + 1, 0)
        /\ (pc = "crashed" /\ i = 0 /\ j = 0) =>
               /\ ShpInterp(latent_rep_total, NShapes - 1, n_steps_interp - 1)
                    = shp_interp
               /\ ColInterp(color_shape, NShapes - 1, n_steps_interp - 1)
                    = col_interp

\* C10 witness: the first frame has been computed, the codes of rows n-1
\* and 0 differ, and the parameters of the last step of the last segment
\* are those of the computed frame.
C10_Witness ==
    /\ pc = "crashed"
    /\ latent_rep_total[NShapes - 1] # latent_rep_total[0]
    /\ shp_interp
         = ShpInterp(latent_rep_total, NShapes - 1, n_steps_interp - 1)
    /\ col_interp = [c \in 0..2 |-> IF c = 2 THEN FDivInt(1, 2) ELSE FZero]

=============================================================================
